---------------------------- MODULE Spec2Model ----------------------------
(***************************************************************************)
(* A model of the Hamsa plugin for LiveKit Agents (src/stt.py, src/tts.py):*)
(* the streaming synthesis session (SynthesizeStream), the one-shot        *)
(* synthesis call (ChunkedStream) and the recognition call (STT).          *)
(*                                                                         *)
(* Text is a sequence of one-character strings.  A response byte is the    *)
(* pair <<request id, offset>>, so that the origin and the order of every  *)
(* byte of an emitted frame can be read off the frame.                     *)
(***************************************************************************)
EXTENDS Integers, Sequences, FiniteSets, TLC

(***************************************************************************)
(* Bounds of the model.                                                    *)
(***************************************************************************)
MaxInput == 3
MaxBytes == 4
MaxChunk == 2
MaxBody == 6
MaxCloseCalls == 2

(***************************************************************************)
(* Program constants.                                                      *)
(***************************************************************************)
NUM_CHANNELS == 1
BytesPerSample == 2
FramesPerSecond == 10
HTTP_OK == 200

\* An optional argument: <<>> is NOT_GIVEN, <<v>> is the value v.
NOT_GIVEN == <<>>
is_given(x) == x /= NOT_GIVEN
Opt(S) == {NOT_GIVEN} \cup {<<v>> : v \in S}

\* The statuses other than 200 the provider answers with.
ErrorStatuses == {404, 500}

\* The constructor's arguments, and the values update_options is called with.
InitialOpts == [speaker |-> "Ali", dialect |-> "pls", mulaw |-> FALSE, sample_rate |-> 10]
UpdateCalls ==
    {[speaker |-> <<"Sara">>, dialect |-> NOT_GIVEN, sample_rate |-> NOT_GIVEN],
     [speaker |-> NOT_GIVEN, dialect |-> <<"egy">>, sample_rate |-> <<20>>]}

(***************************************************************************)
(* Text.                                                                   *)
(***************************************************************************)
Hello == <<"H", "e", "l", "l", "o">>
SpWorld == <<" ", "w", "o", "r", "l", "d">>
Hi == <<"H", "i">>
Dot == <<".">>
Nl == <<"\n">>
Sp == <<" ">>
Tokens == {Hello, SpWorld, Hi, Dot, Nl, Sp}

Whitespace == {" ", "\n", "\t", "\r"}

\* str.strip(): the text without its leading and trailing whitespace.
RECURSIVE LStrip(_)
LStrip(s) == IF s /= <<>> /\ Head(s) \in Whitespace THEN LStrip(Tail(s)) ELSE s

RECURSIVE RStrip(_)
RStrip(s) ==
    IF s /= <<>> /\ s[Len(s)] \in Whitespace
    THEN RStrip(SubSeq(s, 1, Len(s) - 1))
    ELSE s

StripNothing(s) == s

Strip(s) == RStrip(LStrip(s))

\* any(punct in accumulated_text for punct in ['.', '!', '?', '\n'])
HasPunctNoNewline(s) == \E i \in 1..Len(s) : s[i] \in {".", "!", "?"}

Punct == {".", "!", "?", "\n"}

HasPunct(s) == \E i \in 1..Len(s) : s[i] \in Punct

\* An item of the session's input channel.
TextItem(t) == [kind |-> "text", text |-> t]
FlushSentinel == [kind |-> "flush", text |-> <<>>]
InputItems == {TextItem(t) : t \in Tokens} \cup {FlushSentinel}

(***************************************************************************)
(* The reassembler (utils.audio.AudioByteStream of the host framework).    *)
(***************************************************************************)
BytesPerFrame(rate) == NUM_CHANNELS * (rate \div FramesPerSecond) * BytesPerSample

AudioFrame(rate, data) ==
    [sample_rate |-> rate,
     samples |-> Len(data) \div (BytesPerSample * NUM_CHANNELS),
     data |-> data]

NewByteStream(rate) == [sample_rate |-> rate, buf |-> <<>>]

\* The complete frames at the head of buf.
RECURSIVE Cut(_, _)
Cut(rate, buf) ==
    IF Len(buf) >= BytesPerFrame(rate)
    THEN <<AudioFrame(rate, SubSeq(buf, 1, BytesPerFrame(rate)))>>
         \o Cut(rate, SubSeq(buf, BytesPerFrame(rate) + 1, Len(buf)))
    ELSE <<>>

Rest(rate, buf) ==
    SubSeq(buf, Len(buf) - (Len(buf) % BytesPerFrame(rate)) + 1, Len(buf))

\* write(chunk): the frames completed by the chunk and the stream afterwards.
BsWrite(bs, chunk) ==
    [frames |-> Cut(bs.sample_rate, bs.buf \o chunk),
     bs |-> [bs EXCEPT !.buf = Rest(bs.sample_rate, bs.buf \o chunk)]]

\* flush(): one short frame of the whole samples buffered, and an empty buffer.
BsFlush(bs) ==
    LET whole == Len(bs.buf) - (Len(bs.buf) % (BytesPerSample * NUM_CHANNELS))
    IN  [frames |-> IF whole > 0
                    THEN <<AudioFrame(bs.sample_rate, SubSeq(bs.buf, 1, whole))>>
                    ELSE <<>>,
         bs |-> [bs EXCEPT !.buf = <<>>]]

(***************************************************************************)
(* State.                                                                  *)
(***************************************************************************)
VARIABLES
    opts,        \* the _TTSOptions object shared by the TTS and its streams
    want,        \* the options last asked for by the host
    session,     \* the shared aiohttp session
    streams,     \* TTS._streams
    pc,          \* where the session's _run task is
    inputCh,     \* the session's input channel
    inputEnded,  \* the input channel was closed by end_input
    consumed,    \* the items _process_input has taken from the channel
    acc,         \* accumulated_text
    bstream,     \* audio_bstream of _run
    eventCh,     \* the frames sent to the session's event channel
    requests,    \* the synthesis requests sent, in order
    received,    \* the response bytes received, in order
    asked,       \* the options the host had last asked for, per request
    served,      \* what the provider did with each request
    errlog,      \* the errors logged by the session, in order
    budget,      \* response bytes the provider may still send
    nPushed, updated, aclosed,
    call         \* the recognize or one-shot synthesis call, and its outcome

vars == <<opts, want, session, streams, pc, inputCh, inputEnded, consumed, acc,
          bstream, eventCh, requests, received, asked, served, errlog, budget,
          nPushed, updated, aclosed, call>>

TheStream == "stream1"

\* The variables of the streaming session.
streamVars == <<streams, pc, inputCh, inputEnded, consumed, acc, bstream, eventCh,
                requests, received, asked, served, errlog, budget, nPushed, aclosed>>

\* The transport session of utils.http_context, and who holds a reference to it.
NoSession ==
    [tts |-> FALSE, stt |-> FALSE, closed |-> FALSE, closeCalls |-> 0, released |-> 0]

\* TTS._ensure_session
TTS_ensure_session(s) == [s EXCEPT !.tts = TRUE]

\* Default language of the recognizer (STT.__init__).
DefaultLanguage == "ar"

NoResponse ==
    [status |-> 0, parsable |-> TRUE, success |-> "absent", data |-> "absent",
     text |-> <<>>]
NoOutcome ==
    [result |-> "none", exc |-> "", status |-> 0, text |-> <<>>, language |-> "",
     confidence |-> <<0, 1>>, end_time |-> <<0, 1>>]

\* No call is running and none has completed.
NoCall ==
    [pc |-> "idle", kind |-> "none", override |-> NOT_GIVEN, language |-> "",
     buffer |-> <<>>,
     payload |-> <<>>, resp |-> NoResponse, bs |-> NewByteStream(0),
     frames |-> <<>>, nbytes |-> 0, out |-> NoOutcome]

\* The plugin's construction: TTS.__init__ and STT.__init__.
Init ==
    /\ opts = InitialOpts
    /\ want = opts
    /\ session = NoSession
    /\ streams = {}
    /\ pc = "idle"
    /\ inputCh = <<>>
    /\ inputEnded = FALSE
    /\ consumed = <<>>
    /\ acc = <<>>
    /\ bstream = NewByteStream(0)
    /\ eventCh = <<>>
    /\ requests = <<>>
    /\ received = <<>>
    /\ asked = <<>>
    /\ served = <<>>
    /\ errlog = <<>>
    /\ budget = MaxBytes
    /\ nPushed = 0
    /\ updated = FALSE
    /\ aclosed = FALSE
    /\ call = NoCall

Open == pc \in {"created", "loop", "post", "body"}
InFlight == pc \in {"post", "body"}

\* The id of the request in flight: requests are numbered as they are sent.
CurRid == Len(requests)

(***************************************************************************)
(* Exceptions: the classes the handlers name, and their base classes.      *)
(***************************************************************************)
ExcBase ==
    [TimeoutError |-> "Exception",
     ClientConnectionError |-> "ClientError",
     ClientPayloadError |-> "ClientError",
     ClientResponseError |-> "ClientError",
     ClientError |-> "Exception",
     APIStatusError |-> "APIError",
     APITimeoutError |-> "APIConnectionError",
     APIConnectionError |-> "APIError",
     APIError |-> "Exception",
     ContentTypeError |-> "ClientResponseError",
     RuntimeError |-> "Exception",
     Exception |-> "BaseException",
     CancelledError |-> "BaseException",
     BaseException |-> "BaseException"]

RECURSIVE IsInstance(_, _)
IsInstance(cls, base) ==
    \/ cls = base
    \/ cls /= "BaseException" /\ IsInstance(ExcBase[cls], base)

\* What the transport may raise while a request is awaited.
TransportExcs == {"TimeoutError", "ClientConnectionError"}

(***************************************************************************)
(* TTS.update_options and SynthesizeStream.update_options: both assign to  *)
(* the fields of the one shared _TTSOptions object.                        *)
(***************************************************************************)
SetOptsNoDialect(o, speaker, dialect, sample_rate) ==
    [o EXCEPT !.speaker = IF is_given(speaker) THEN speaker[1] ELSE @,
              !.sample_rate = IF is_given(sample_rate) THEN sample_rate[1] ELSE @]

SetOpts(o, speaker, dialect, sample_rate) ==
    [o EXCEPT !.speaker = IF is_given(speaker) THEN speaker[1] ELSE @,
              !.dialect = IF is_given(dialect) THEN dialect[1] ELSE @,
              !.sample_rate = IF is_given(sample_rate) THEN sample_rate[1] ELSE @]

\* for stream in self._streams: stream.update_options(...)
RECURSIVE ForwardOpts(_, _, _, _, _)
ForwardOpts(ss, o, speaker, dialect, sample_rate) ==
    IF ss = {} THEN o
    ELSE LET s == CHOOSE x \in ss : TRUE
         IN  ForwardOpts(ss \ {s}, SetOpts(o, speaker, dialect, sample_rate),
                         speaker, dialect, sample_rate)

\* What the host has asked for so far (not program state).
Asked(w, speaker, dialect, sample_rate) ==
    [speaker |-> IF speaker = NOT_GIVEN THEN w.speaker ELSE speaker[1],
     dialect |-> IF dialect = NOT_GIVEN THEN w.dialect ELSE dialect[1],
     mulaw |-> w.mulaw,
     sample_rate |-> IF sample_rate = NOT_GIVEN THEN w.sample_rate ELSE sample_rate[1]]

TTS_update_options(speaker, dialect, sample_rate) ==
    /\ ~updated
    /\ updated' = TRUE
    /\ opts' = ForwardOpts(streams, SetOpts(opts, speaker, dialect, sample_rate),
                           speaker, dialect, sample_rate)
    /\ want' = Asked(want, speaker, dialect, sample_rate)
    /\ UNCHANGED <<session, streams, pc, inputCh, inputEnded, consumed, acc,
                   bstream, eventCh, requests, received, asked, served, errlog, budget,
                   nPushed, aclosed, call>>

Stream_update_options(speaker, dialect, sample_rate) ==
    /\ Open
    /\ ~updated
    /\ updated' = TRUE
    /\ opts' = SetOpts(opts, speaker, dialect, sample_rate)
    /\ want' = Asked(want, speaker, dialect, sample_rate)
    /\ UNCHANGED <<session, streams, pc, inputCh, inputEnded, consumed, acc,
                   bstream, eventCh, requests, received, asked, served, errlog, budget,
                   nPushed, aclosed, call>>

(***************************************************************************)
(* The host's side of a streaming session.                                 *)
(***************************************************************************)
\* TTS.stream
TTS_stream ==
    /\ pc = "idle"
    /\ pc' = "created"
    /\ session' = TTS_ensure_session(session)
    /\ streams' = streams \cup {TheStream}
    /\ UNCHANGED <<opts, want, inputCh, inputEnded, consumed, acc, bstream,
                   eventCh, requests, received, asked, served, errlog, budget,
                   nPushed, updated, aclosed, call>>

\* push_text(token) and flush(): one more item on the input channel.
Push(item) ==
    /\ Open
    /\ ~inputEnded
    /\ nPushed < MaxInput
    /\ inputCh = <<>>
    /\ inputCh' = Append(inputCh, item)
    /\ nPushed' = nPushed + 1
    /\ UNCHANGED <<opts, want, session, streams, pc, inputEnded, consumed, acc,
                   bstream, eventCh, requests, received, asked, served, errlog, budget,
                   updated, aclosed, call>>

\* The input channel is closed: the async for ends once it is drained.
EndInput ==
    /\ Open
    /\ ~inputEnded
    /\ inputEnded' = TRUE
    /\ UNCHANGED <<opts, want, session, streams, pc, inputCh, consumed, acc,
                   bstream, eventCh, requests, received, asked, served, errlog, budget,
                   nPushed, updated, aclosed, call>>

\* TTS.aclose: every stream is closed (its task cancelled), the set cleared.
TTS_aclose ==
    /\ aclosed' = TRUE
    /\ pc' = IF TheStream \in streams /\ pc /= "idle" THEN "closed" ELSE pc
    /\ streams' = {}
    /\ UNCHANGED <<opts, want, session, inputCh, inputEnded, consumed, acc,
                   bstream, eventCh, requests, received, asked, served, errlog, budget,
                   nPushed, updated, call>>

(***************************************************************************)
(* SynthesizeStream._run and _process_input.                               *)
(***************************************************************************)
\* The head of _run: the session's one reassembler, then the input loop.
RunStart ==
    /\ pc = "created"
    /\ bstream' = NewByteStream(opts.sample_rate)
    /\ acc' = <<>>
    /\ pc' = "loop"
    /\ UNCHANGED <<opts, want, session, streams, inputCh, inputEnded, consumed,
                   eventCh, requests, received, asked, served, errlog, budget,
                   nPushed, updated, aclosed, call>>

\* The payload of _synthesize_text, built from the options as they are now.
Payload(o, text) ==
    [speaker |-> o.speaker, dialect |-> o.dialect, text |-> text, mulaw |-> o.mulaw]

\* _synthesize_text up to its first await: the request is sent.
SendRequest(text) ==
    /\ requests' = Append(requests, Payload(opts, text))
    /\ asked' = Append(asked, want)
    /\ served' = Append(served, "pending")
    /\ pc' = "post"

NoRequest ==
    /\ pc' = "loop"
    /\ UNCHANGED <<requests, asked, served>>

\* One turn of the async for: a text token or a flush marker.
ProcessInput ==
    /\ pc = "loop"
    /\ inputCh /= <<>>
    /\ LET input_data == Head(inputCh)
           appended == acc \o input_data.text
       IN  /\ inputCh' = Tail(inputCh)
           /\ consumed' = Append(consumed, input_data)
           /\ IF input_data.kind = "text"
              THEN IF HasPunct(appended)
                   THEN IF Strip(appended) /= <<>>
                        THEN acc' = appended /\ SendRequest(Strip(appended))
                        ELSE acc' = <<>> /\ NoRequest
                   ELSE acc' = appended /\ NoRequest
              ELSE IF Strip(acc) /= <<>>
                   THEN acc' = acc /\ SendRequest(Strip(acc))
                   ELSE acc' = <<>> /\ NoRequest
    /\ UNCHANGED <<opts, want, session, streams, inputEnded, bstream, eventCh,
                   received, errlog, budget, nPushed, updated, aclosed, call>>

\* The input channel is closed and drained: _process_input and _run return.
LoopEnd ==
    /\ pc = "loop"
    /\ inputCh = <<>>
    /\ inputEnded
    /\ pc' = "done"
    /\ UNCHANGED <<opts, want, session, streams, inputCh, inputEnded, consumed,
                   acc, bstream, eventCh, requests, received, asked, served, errlog,
                   budget, nPushed, updated, aclosed, call>>

(***************************************************************************)
(* SynthesizeStream._synthesize_text, from the response on.                *)
(***************************************************************************)
\* _synthesize_text returns: the caller resets accumulated_text.
Return ==
    /\ pc' = "loop"
    /\ acc' = <<>>

Events(rid, frames) == [i \in 1..Len(frames) |-> [request_id |-> rid, frame |-> frames[i]]]

\* for frame in ...: self._event_ch.send_nowait(SynthesizedAudio(request_id, frame))
EmitInFront(ch, rid, frames) == Events(rid, frames) \o ch

Emit(ch, rid, frames) == ch \o Events(rid, frames)

\* The bytes offset+1 .. offset+n of request rid's response.
Chunk(rid, offset, n) == [i \in 1..n |-> <<rid, offset + i>>]

ReceivedOf(rid) == SelectSeq(received, LAMBDA b : b[1] = rid)

\* The response headers arrive.
StreamResponse(status) ==
    /\ pc = "post"
    /\ IF status /= HTTP_OK
       THEN /\ errlog' = Append(errlog, [rid |-> CurRid, error |-> "status", status |-> status])
            /\ Return
       ELSE /\ pc' = "body"
            /\ UNCHANGED <<errlog, acc>>
    /\ served' = IF status /= HTTP_OK THEN [served EXCEPT ![CurRid] = "failed"] ELSE served
    /\ UNCHANGED <<opts, want, session, streams, inputCh, inputEnded, consumed,
                   bstream, eventCh, requests, received, asked, budget,
                   nPushed, updated, aclosed, call>>

\* A chunk of the body arrives: it is written to the reassembler.
StreamChunk(n) ==
    /\ pc = "body"
    /\ n <= budget
    /\ LET chunk == Chunk(CurRid, Len(ReceivedOf(CurRid)), n)
           w == BsWrite(bstream, chunk)
       IN  /\ received' = received \o chunk
           /\ budget' = budget - n
           /\ IF chunk /= <<>>
              THEN /\ bstream' = w.bs
                   /\ eventCh' = Emit(eventCh, CurRid, w.frames)
              ELSE UNCHANGED <<bstream, eventCh>>
    /\ UNCHANGED <<opts, want, session, streams, pc, inputCh, inputEnded, consumed,
                   acc, requests, asked, served, errlog, nPushed, updated, aclosed, call>>

\* The body ends: the reassembler is flushed.
StreamBodyEnd ==
    /\ pc = "body"
    /\ LET f == BsFlush(bstream)
       IN  /\ bstream' = f.bs
           /\ eventCh' = Emit(eventCh, CurRid, f.frames)
    /\ Return
    /\ served' = [served EXCEPT ![CurRid] = "ok"]
    /\ UNCHANGED <<opts, want, session, streams, inputCh, inputEnded, consumed,
                   requests, received, asked, errlog, budget,
                   nPushed, updated, aclosed, call>>

\* except Exception: logged, and _synthesize_text returns normally.
StreamCatchesClientError(exc) == IsInstance(exc, "ClientError")

StreamCatches(exc) == IsInstance(exc, "Exception")

\* The transport raises while the response or its body is awaited.
StreamRequestFails(exc) ==
    /\ InFlight
    /\ IF StreamCatches(exc)
       THEN /\ errlog' = Append(errlog, [rid |-> CurRid, error |-> exc, status |-> 0])
            /\ Return
       ELSE /\ pc' = "failed"
            /\ UNCHANGED <<errlog, acc>>
    /\ served' = [served EXCEPT ![CurRid] = "failed"]
    /\ UNCHANGED <<opts, want, session, streams, inputCh, inputEnded, consumed,
                   bstream, eventCh, requests, received, asked, budget,
                   nPushed, updated, aclosed, call>>

(***************************************************************************)
(* The streaming session's task and its provider.                          *)
(***************************************************************************)
StreamTask ==
    \/ RunStart
    \/ ProcessInput
    \/ LoopEnd
    \/ \E status \in {HTTP_OK, 500} : StreamResponse(status)
    \/ \E n \in 0..MaxChunk : StreamChunk(n)
    \/ StreamBodyEnd
    \/ \E exc \in TransportExcs : StreamRequestFails(exc)

\* A streaming session whose host pushes words, full stops and flush markers
\* and may update the options once.
StreamItems == {TextItem(Hello), TextItem(Dot), FlushSentinel}

Next ==
    \/ TTS_stream
    \/ \E item \in StreamItems : Push(item)
    \/ EndInput
    \/ \E u \in UpdateCalls : TTS_update_options(u.speaker, u.dialect, u.sample_rate)
    \/ \E u \in UpdateCalls : Stream_update_options(u.speaker, u.dialect, u.sample_rate)
    \/ StreamTask

Spec == Init /\ [][Next]_vars

\* A streaming session whose host pushes any of the tokens and may close the
\* plugin.
NextText ==
    \/ TTS_stream
    \/ \E item \in InputItems : Push(item)
    \/ EndInput
    \/ TTS_aclose
    \/ StreamTask

SpecText == Init /\ [][NextText]_vars

(***************************************************************************)
(* STT._recognize_impl and STT.aclose.                                     *)
(***************************************************************************)
\* The audio buffers passed to recognize: a list of frames or one frame.  An
\* empty list cannot be combined into a WAV file.
Buffers ==
    {[kind |-> "list", samples |-> 0, sample_rate |-> 0],
     [kind |-> "list", samples |-> 8, sample_rate |-> 4],
     [kind |-> "frame", samples |-> 4, sample_rate |-> 4]}

Languages == {"en"}
Transcript == <<"o", "k">>

\* The JSON bodies of a 200 response: success, and data absent, null, an empty
\* object, an object with a text, or an object without one.
JsonBodies ==
    [status : {HTTP_OK}, parsable : BOOLEAN, success : {"true", "false", "absent"},
     data : {"absent", "null", "empty", "text", "notext"}, text : {Transcript}]

ErrorBodies ==
    [status : ErrorStatuses, parsable : {FALSE}, success : {"absent"},
     data : {"absent"}, text : {<<>>}]

Raised(exc, status) == [NoOutcome EXCEPT !.result = "raised", !.exc = exc, !.status = status]

\* _convert_to_wav_base64 raises for a buffer with no frame.
Convertible(buffer) == ~(buffer.kind = "list" /\ buffer.samples = 0)

\* The except clauses of _recognize_impl, in their order.
SttExcept(exc, status) ==
    IF IsInstance(exc, "TimeoutError") THEN Raised("APITimeoutError", 0)
    ELSE IF IsInstance(exc, "ClientError") THEN Raised("APIConnectionError", 0)
    ELSE IF IsInstance(exc, "Exception") THEN Raised("APIConnectionError", 0)
    ELSE Raised(exc, status)

\* opts_language: the override when given, else the configured language.
OptsLanguage(language) == IF is_given(language) THEN language[1] ELSE DefaultLanguage

\* transcript_text of a parsed response.
TranscriptTextAlways(r) == IF r.data = "text" THEN r.text ELSE <<>>

TranscriptText(r) ==
    IF r.success = "true" /\ r.data \in {"text", "notext"}
    THEN IF r.data = "text" THEN r.text ELSE <<>>
    ELSE <<>>

\* end_time: the buffer's samples over its sample rate, 0 when there are none.
EndTime(buffer) ==
    IF buffer.samples > 0 /\ buffer.sample_rate > 0
    THEN <<buffer.samples, buffer.sample_rate>>
    ELSE <<0, 1>>

\* confidence=1.0
Confidence == <<1, 1>>

\* The SpeechEvent returned for a parsed 200 response.
Transcribed(c, r) ==
    [result |-> "returned", exc |-> "", status |-> r.status,
     text |-> TranscriptText(r), language |-> c.language,
     confidence |-> Confidence, end_time |-> EndTime(c.buffer)]

\* STT._ensure_session
STT_ensure_session(s) == [s EXCEPT !.stt = TRUE]

\* ClientSession.close(): the connector is released by the first call only.
SessionClose(s) ==
    [s EXCEPT !.closed = TRUE,
              !.closeCalls = @ + 1,
              !.released = IF s.closed THEN @ ELSE @ + 1]

\* recognize, up to the request being sent.
Recognize(buffer, language) ==
    /\ call.pc = "idle"
    /\ LET c == [NoCall EXCEPT !.kind = "stt", !.buffer = buffer,
                               !.override = language,
                               !.language = OptsLanguage(language)]
       IN  IF ~Convertible(buffer)
           THEN /\ call' = [c EXCEPT !.out = Raised("APIConnectionError", 0)]
                /\ UNCHANGED session
           ELSE /\ session' = STT_ensure_session(session)
                /\ IF session.closed
                   THEN call' = [c EXCEPT !.out = SttExcept("RuntimeError", 0)]
                   ELSE call' = [c EXCEPT !.pc = "stt_post"]
    /\ UNCHANGED <<opts, want, updated, streamVars>>

\* The response arrives and is handled.
SttResponse(r) ==
    /\ call.pc = "stt_post"
    /\ call' = [call EXCEPT
                  !.pc = "idle",
                  !.resp = r,
                  !.out = IF r.status /= HTTP_OK
                          THEN SttExcept("APIStatusError", r.status)
                          ELSE IF ~r.parsable
                          THEN SttExcept("ContentTypeError", r.status)
                          ELSE Transcribed(call, r)]
    /\ UNCHANGED <<opts, want, updated, session, streamVars>>

\* The transport raises while the response is awaited.
SttFails(exc) ==
    /\ call.pc = "stt_post"
    /\ call' = [call EXCEPT !.pc = "idle", !.out = SttExcept(exc, 0)]
    /\ UNCHANGED <<opts, want, updated, session, streamVars>>

\* STT.aclose
STT_aclose ==
    /\ session.closeCalls < MaxCloseCalls
    /\ session' = IF session.stt THEN SessionClose(session) ELSE session
    /\ aclosed' = TRUE
    /\ UNCHANGED <<opts, want, updated, call, streams, pc, inputCh, inputEnded,
                   consumed, acc, bstream, eventCh, requests, received, asked, served,
                   errlog, budget, nPushed>>

(***************************************************************************)
(* TTS.synthesize and ChunkedStream._run.                                  *)
(***************************************************************************)
\* The except clauses of ChunkedStream._run, in their order.
OneExcept(exc, status) ==
    IF IsInstance(exc, "TimeoutError") THEN Raised("APITimeoutError", 0)
    ELSE IF IsInstance(exc, "ClientResponseError") THEN Raised("APIStatusError", status)
    ELSE IF IsInstance(exc, "Exception") THEN Raised("APIConnectionError", 0)
    ELSE Raised(exc, status)

\* TTS.synthesize: the ChunkedStream is built on the TTS's options object.
Synthesize(text) ==
    /\ call.pc = "idle"
    /\ session' = TTS_ensure_session(session)
    /\ call' = [NoCall EXCEPT !.kind = "one", !.pc = "one_created",
                              !.payload = <<Payload(opts, text)>>]
    /\ UNCHANGED <<opts, want, updated, streamVars>>

\* The head of _run: the reassembler, the payload, the request.
OneRun ==
    /\ call.pc = "one_created"
    /\ LET c == [call EXCEPT !.bs = NewByteStream(opts.sample_rate),
                             !.payload = <<Payload(opts, call.payload[1].text)>>]
       IN  IF session.closed
           THEN call' = [c EXCEPT !.pc = "idle", !.out = OneExcept("RuntimeError", 0)]
           ELSE call' = [c EXCEPT !.pc = "one_post"]
    /\ UNCHANGED <<opts, want, updated, session, streamVars>>

\* The response headers arrive.
OneResponse(status) ==
    /\ call.pc = "one_post"
    /\ call' = IF status /= HTTP_OK
               THEN [call EXCEPT !.pc = "idle", !.resp.status = status,
                                 !.out = OneExcept("APIStatusError", status)]
               ELSE [call EXCEPT !.pc = "one_body", !.resp.status = status]
    /\ UNCHANGED <<opts, want, updated, session, streamVars>>

\* The frames of a chunk: nothing is written for an empty chunk.
OneWrite(bs, chunk) ==
    IF chunk /= <<>> THEN BsWrite(bs, chunk) ELSE [frames |-> <<>>, bs |-> bs]

\* A chunk of the body arrives.
OneChunk(n) ==
    /\ call.pc = "one_body"
    /\ call.nbytes + n <= MaxBody
    /\ LET w == OneWrite(call.bs, Chunk(1, call.nbytes, n))
       IN  call' = [call EXCEPT !.bs = w.bs,
                                !.frames = Emit(@, 1, w.frames),
                                !.nbytes = @ + n]
    /\ UNCHANGED <<opts, want, updated, session, streamVars>>

\* The flush at the end of the body.
OneFlushSkipped(bs) == [frames |-> <<>>, bs |-> bs]

OneFlush(bs) == BsFlush(bs)

\* The body ends: the reassembler is flushed and _run returns.
OneBodyEnd ==
    /\ call.pc = "one_body"
    /\ LET f == OneFlush(call.bs)
       IN  call' = [call EXCEPT !.pc = "idle",
                                !.bs = f.bs,
                                !.frames = Emit(@, 1, f.frames),
                                !.out = [NoOutcome EXCEPT !.result = "returned",
                                                          !.status = HTTP_OK]]
    /\ UNCHANGED <<opts, want, updated, session, streamVars>>

\* The transport raises while the response or its body is awaited.
OneFails(exc, status) ==
    /\ call.pc \in {"one_post", "one_body"}
    /\ call' = [call EXCEPT !.pc = "idle", !.out = OneExcept(exc, status)]
    /\ UNCHANGED <<opts, want, updated, session, streamVars>>

\* The plugin's calls: recognize and one-shot synthesis, one at a time.
NextCalls ==
    \/ \E b \in Buffers, l \in Opt(Languages) : Recognize(b, l)
    \/ \E r \in JsonBodies \cup ErrorBodies : SttResponse(r)
    \/ \E exc \in TransportExcs : SttFails(exc)
    \/ STT_aclose
    \/ \E u \in UpdateCalls : TTS_update_options(u.speaker, u.dialect, u.sample_rate)
    \/ \E t \in {Hello} : Synthesize(t)
    \/ OneRun
    \/ \E status \in {HTTP_OK} \cup ErrorStatuses : OneResponse(status)
    \/ \E n \in 0..MaxChunk : OneChunk(n)
    \/ OneBodyEnd
    \/ \E exc \in TransportExcs : OneFails(exc, 0)
    \/ \E status \in ErrorStatuses : OneFails("ClientResponseError", status)

SpecCalls == Init /\ [][NextCalls]_vars

(***************************************************************************)
(* Properties.                                                             *)
(***************************************************************************)
Texts(reqs) == [i \in 1..Len(reqs) |-> reqs[i].text]
LoggedRids == {errlog[i].rid : i \in 1..Len(errlog)}

RECURSIVE Concat(_)
Concat(ss) == IF ss = <<>> THEN <<>> ELSE Head(ss) \o Concat(Tail(ss))

\* The bytes of the frames of a sequence of events, in the order emitted.
EmittedBytes(events) == Concat([i \in 1..Len(events) |-> events[i].frame.data])

\* Byte a was received before byte b.
Before(a, b) == a[1] < b[1] \/ (a[1] = b[1] /\ a[2] < b[2])

InOrder(bytes) == \A i \in 1..Len(bytes) - 1 : Before(bytes[i], bytes[i + 1])

\* C1: whenever the provider answers recognize or one-shot synthesis with a
\* status other than 200, the call raises APIStatusError carrying that status,
\* never a connection or timeout error.
C1_StatusErrorReachesCaller ==
    (call.out.result /= "none" /\ call.resp.status \notin {0, HTTP_OK})
        => /\ call.out.result = "raised"
           /\ call.out.exc = "APIStatusError"
           /\ call.out.status = call.resp.status

\* C2: in a streaming session the failure of one segment's request (non-200,
\* timeout, transport exception) is logged and suppressed: the input loop is
\* never terminated by it, and the segments finalized afterwards are still
\* sent, one request each.
RECURSIVE Finalized(_, _)
Finalized(items, text) ==
    IF items = <<>> THEN <<>>
    ELSE LET item == Head(items)
             a == text \o item.text
             ends == item.kind = "flush" \/ \E i \in 1..Len(a) : a[i] \in {".", "!", "?", "\n"}
             blank == \A i \in 1..Len(a) : a[i] \in Whitespace
         IN  IF ends
             THEN (IF blank THEN <<>> ELSE <<a>>) \o Finalized(Tail(items), <<>>)
             ELSE Finalized(Tail(items), a)

C2_FailureIsLoggedAndSuppressed ==
    /\ pc /= "failed"
    /\ \A i \in 1..Len(served) : served[i] = "failed" <=> i \in LoggedRids
    /\ Len(requests) = Len(Finalized(consumed, <<>>))

C2_Witness ==
    /\ Len(requests) >= 2
    /\ served[1] = "failed"
    /\ 1 \in LoggedRids
    /\ served[2] = "ok"
    /\ \E i \in 1..Len(eventCh) : eventCh[i].request_id = 2

\* C3: at most one segment request is in flight and segments are processed in
\* finalization order: when the request of segment N+1 has been sent, segment N
\* has ended with its frames emitted or its failure logged, no frame of an
\* earlier request follows a frame of a later one, and the bytes of the frames
\* are in the order they were received.
C3_SequentialInOrder ==
    /\ \A i \in 1..Len(requests) - 1 :
          \/ served[i] = "failed" /\ i \in LoggedRids
          \/ served[i] = "ok"
    /\ \A i \in 1..Len(eventCh) - 1 : eventCh[i].request_id <= eventCh[i + 1].request_id
    /\ \A i \in 1..Len(eventCh) : eventCh[i].request_id <= Len(requests)
    /\ InOrder(EmittedBytes(eventCh) \o bstream.buf)

C3_Witness ==
    /\ Len(requests) >= 2
    /\ served[1] = "ok"
    /\ \E i, j \in 1..Len(eventCh) :
          /\ i < j
          /\ eventCh[i].request_id = 1
          /\ eventCh[j].request_id = 1

(***************************************************************************)
(* The segmenter's rules, stated on one step of the input loop.            *)
(***************************************************************************)
Terminals == {".", "!", "?", "\n"}
HasTerminal(a) == \E i \in 1..Len(a) : a[i] \in Terminals
Blank(a) == \A i \in 1..Len(a) : a[i] \in Whitespace

\* t is a without the whitespace at its two ends.
IsTrimOf(t, a) ==
    /\ t /= <<>>
    /\ t[1] \notin Whitespace
    /\ t[Len(t)] \notin Whitespace
    /\ \E i \in 0..Len(a) - Len(t) :
          /\ SubSeq(a, i + 1, i + Len(t)) = t
          /\ Blank(SubSeq(a, 1, i))
          /\ Blank(SubSeq(a, i + Len(t) + 1, Len(a)))

\* The step takes an item of the given kind from the input channel.
Takes(kind) ==
    /\ Len(consumed') = Len(consumed) + 1
    /\ consumed'[Len(consumed')].kind = kind

\* The step sends exactly one request, for the trimmed text a.
EmitsSegment(a) ==
    /\ Len(requests') = Len(requests) + 1
    /\ SubSeq(requests', 1, Len(requests)) = requests
    /\ IsTrimOf(requests'[Len(requests')].text, a)

EmitsNothing == requests' = requests /\ pc' = "loop"

\* The synthesis of a segment returns to the loop.
SegmentDone == pc \in {"post", "body"} /\ pc' = "loop"

HelloWorld == <<"H", "e", "l", "l", "o", " ", "w", "o", "r", "l", "d">>

\* C4 as claimed: a token is appended; nothing is emitted while the
\* accumulator holds no terminal; once it holds one, exactly one segment, the
\* trimmed accumulator, is emitted and the accumulator reset; "Hello",
\* " world", "." yield the one segment "Hello world".
C4_TokenStepAsClaimed ==
    Takes("text") =>
        LET a == acc \o consumed'[Len(consumed')].text
        IN  /\ ~HasTerminal(a) => EmitsNothing /\ acc' = a
            /\ HasTerminal(a) =>
                  /\ Len(requests') = Len(requests) + 1
                  /\ LET t == requests'[Len(requests')].text
                     IN  IsTrimOf(t, a) \/ (Blank(a) /\ t = <<>>)
            /\ consumed' = <<TextItem(Hello), TextItem(SpWorld), TextItem(Dot)>>
                  => Texts(requests') = <<HelloWorld>>

C4_TokenRuleAsClaimed ==
    /\ [][C4_TokenStepAsClaimed]_vars
    /\ [][SegmentDone => acc' = <<>>]_vars

\* C4, amended: a token is appended; nothing is emitted while the accumulator
\* holds no terminal; once it holds one, the accumulator is reset and, unless
\* it is all whitespace, exactly one segment is emitted, the trimmed
\* accumulator with its punctuation; "Hello", " world", "." yield the one
\* segment "Hello world.".
C4_TokenStep ==
    Takes("text") =>
        LET a == acc \o consumed'[Len(consumed')].text
        IN  /\ ~HasTerminal(a) => EmitsNothing /\ acc' = a
            /\ HasTerminal(a) /\ Blank(a) => EmitsNothing /\ acc' = <<>>
            /\ HasTerminal(a) /\ ~Blank(a) => EmitsSegment(a)

C4_TokenRule ==
    /\ [](consumed = <<TextItem(Hello), TextItem(SpWorld), TextItem(Dot)>>
            => Texts(requests) = <<HelloWorld \o Dot>>)
    /\ [][C4_TokenStep]_vars
    /\ [][SegmentDone => acc' = <<>>]_vars

C4_Witness ==
    /\ consumed = <<TextItem(Hello), TextItem(SpWorld), TextItem(Dot)>>
    /\ Texts(requests) = <<HelloWorld \o Dot>>
    /\ pc = "loop"
    /\ acc = <<>>

\* C5: on a flush marker a non-blank accumulator is emitted, trimmed, as
\* exactly one segment and then reset ("Hi" and a flush yield the one segment
\* "Hi"); an empty or all-whitespace accumulator emits nothing and sends no
\* request, so a flush that follows a flush emits nothing.
C5_FlushStep ==
    Takes("flush") =>
        /\ ~Blank(acc) => EmitsSegment(acc)
        /\ Blank(acc) => EmitsNothing /\ acc' = <<>>
        /\ consumed /= <<>> /\ consumed[Len(consumed)].kind = "flush" => EmitsNothing

C5_FlushRule ==
    /\ [](consumed = <<TextItem(Hi), FlushSentinel>> => Texts(requests) = <<Hi>>)
    /\ [](consumed = <<FlushSentinel>> => requests = <<>>)
    /\ [][C5_FlushStep]_vars
    /\ [][SegmentDone => acc' = <<>>]_vars

C5_Witness ==
    /\ consumed = <<TextItem(Hi), FlushSentinel, FlushSentinel>>
    /\ Texts(requests) = <<Hi>>
    /\ served = <<"ok">>

(***************************************************************************)
(* Options, closing, recognition results and the one-shot round trip.      *)
(***************************************************************************)
\* C6: every frame of a segment carries the sample rate that was in effect
\* when the segment's request started: the old rate for a request started
\* before an update of sample_rate, the new rate for one started after it.
C6_FramesUseRateAtRequestStart ==
    \A i \in 1..Len(eventCh) :
        eventCh[i].frame.sample_rate = asked[eventCh[i].request_id].sample_rate

\* C7: once aclose has been called on a plugin that had opened a streaming
\* session, the session emits no further frame (its task no longer runs) and
\* the shared transport session has been released exactly once, however often
\* aclose is called.
C7_CloseStopsFramesAndReleasesOnce ==
    (aclosed /\ session.tts)
        => /\ pc \notin {"created", "loop", "post", "body"}
           /\ session.released = 1

\* C8: the TTS's options hold the speaker and dialect last given to
\* update_options (those not given keep their values), and every segment
\* request carries the speaker and dialect that had been asked for when it
\* started: the new ones after an update, the old ones for a request that was
\* already in flight.
C8_UpdatedOptionsReachLaterRequests ==
    /\ opts.speaker = want.speaker
    /\ opts.dialect = want.dialect
    /\ \A i \in 1..Len(requests) :
          /\ requests[i].speaker = asked[i].speaker
          /\ requests[i].dialect = asked[i].dialect

C8_Witness ==
    /\ Len(requests) >= 2
    /\ requests[1].dialect = "pls"
    /\ requests[2].dialect = "egy"
    /\ requests[2].speaker = "Ali"
    /\ opts.dialect = "egy"

\* C9: recognize with a 200 response whose body parses returns a transcript
\* with confidence exactly 1.0 and the override language when one was given,
\* else the configured one; when success is false or data is absent the text
\* is empty and nothing is raised.
C9_RecognizeResult ==
    (call.kind = "stt" /\ call.resp.status = HTTP_OK /\ call.resp.parsable)
        => /\ call.out.result = "returned"
           /\ call.out.confidence = <<1, 1>>
           /\ call.out.language =
                 IF call.override = <<>> THEN DefaultLanguage ELSE call.override[1]
           /\ (call.resp.success /= "true" \/ call.resp.data \in {"absent", "null", "empty"})
                 => call.out.text = <<>>
           /\ (call.resp.success = "true" /\ call.resp.data = "text")
                 => call.out.text = call.resp.text

C9_Witness ==
    /\ call.kind = "stt"
    /\ call.out.result = "returned"
    /\ call.resp.success = "false"
    /\ call.resp.data = "text"
    /\ call.override = <<"en">>
    /\ call.out.language = "en"
    /\ call.out.text = <<>>

\* C10: when a one-shot synthesis call returns, every received chunk has been
\* written and the reassembler flushed: the samples of the emitted frames add
\* up to the response's bytes divided by (bytes per sample x channels), only
\* the last frame may be short, the frames hold the response's bytes in order
\* and no byte is left in the reassembler.
RECURSIVE SumSamples(_)
SumSamples(events) ==
    IF events = <<>> THEN 0 ELSE Head(events).frame.samples + SumSamples(Tail(events))

WholeBytes(n) == n - (n % (BytesPerSample * NUM_CHANNELS))

C10_OneShotRoundTrip ==
    (call.kind = "one" /\ call.out.result = "returned")
        => /\ SumSamples(call.frames) = call.nbytes \div (BytesPerSample * NUM_CHANNELS)
           /\ EmittedBytes(call.frames) = Chunk(1, 0, WholeBytes(call.nbytes))
           /\ call.bs.buf = <<>>
           /\ \A i \in 1..Len(call.frames) - 1 :
                 call.frames[i].frame.samples = call.bs.sample_rate \div FramesPerSecond

C10_Witness ==
    /\ call.kind = "one"
    /\ call.out.result = "returned"
    /\ call.nbytes = 6
    /\ Len(call.frames) = 2
    /\ call.frames[1].frame.samples = 2
    /\ call.frames[2].frame.samples = 1


(***************************************************************************)
(* The session's one reassembler across its segments.                      *)
(***************************************************************************)
\* The requests whose response bytes a frame carries.
SegmentsOf(frame) == {frame.data[i][1] : i \in 1..Len(frame.data)}

\* C11: every frame a streaming session emits carries bytes of exactly one
\* segment's response, the one it is labelled with, and whenever a segment's
\* request has been sent and its response is awaited the reassembler holds
\* no byte of an earlier segment, also after an earlier segment failed with
\* part of its body written.
C11_FramesOfOneSegment ==
    /\ \A i \in 1..Len(eventCh) :
          SegmentsOf(eventCh[i].frame) = {eventCh[i].request_id}
    /\ pc = "post" => bstream.buf = <<>>

(***************************************************************************)
(* What becomes of the text pushed to a streaming session.                 *)
(***************************************************************************)
\* The characters of a text other than whitespace, in order.
NonWhitespace(s) == SelectSeq(s, LAMBDA c : c \notin Whitespace)

\* The text of the tokens taken from the input channel, in order.
ConsumedText ==
    Concat([i \in 1..Len(consumed) |->
               IF consumed[i].kind = "text" THEN consumed[i].text ELSE <<>>])

\* The text of the segments sent to synthesis, in order.
SentText == Concat(Texts(requests))

\* C12: when the input loop has terminated, the input channel closed and
\* drained, the non-whitespace text of the tokens pushed is exactly the
\* non-whitespace text of the segments sent to synthesis, in order: nothing
\* is sent twice and nothing is dropped, whatever was still in the
\* accumulator when the channel closed.
C12_EveryTokenInOneSegment ==
    pc = "done" => NonWhitespace(ConsumedText) = NonWhitespace(SentText)

=============================================================================
